---------------------------- MODULE Spec2Model ----------------------------
(***************************************************************************)
(* A model of the S3 backend of opendal (src/services/s3/backend.rs):      *)
(* the Builder (setters, detect_region, finish), the Backend's path        *)
(* functions and header policy, the Accessor operations read, write, stat, *)
(* delete, list and the stream it returns, the list-page request, and      *)
(* parse_error_response.                                                   *)
(*                                                                         *)
(* Strings that the code inspects character by character (paths, roots)    *)
(* are sequences of one-character strings; opaque strings (endpoints,      *)
(* regions, header values) are TLA+ strings.  An Option<T> is the empty    *)
(* set (None) or a singleton (Some(v)).                                    *)
(***************************************************************************)
EXTENDS Integers, Sequences, FiniteSets, TLC

VARIABLES
    builder,   \* the Builder's fields
    built,     \* what the last Builder::finish returned
    probes,    \* the requests the last detect_region handed to the client
    backend,   \* the Backend's fields
    pc,        \* where the current Accessor call is: idle, await, done
    call,      \* the current call: operation, arguments, absolute key
    sent,      \* the requests the current call handed to the client
    events,    \* what the current call did to its request, in order
    result,    \* what the current call returned
    perr,      \* parse_error_response's locals while it runs
    nset,      \* the number of setter calls made on the Builder so far
    stream     \* the S3ObjectStream list returned, and what came of it

vars ==
    <<builder, built, probes, backend, pc, call, sent, events, result, perr,
      nset, stream>>

-----------------------------------------------------------------------------
(* Bounds of the model.                                                    *)

\* Longest virtual path (in characters) an Accessor call is given.
MaxPathLen == 2
\* Most chunks an error response body arrives in.
MaxChunks == 2
\* Most setter calls made on one Builder.
MaxSetterCalls == 2
\* Most pages a listing is answered in.
MaxPages == 3
\* Longest path (in characters) given to a path function called on its own.
MaxInputLen == 3

-----------------------------------------------------------------------------
(* Option<T>                                                               *)

None == {}
Some(v) == {v}
IsSome(o) == o /= {}
Unwrap(o) == CHOOSE v \in o : TRUE

Min(a, b) == IF a <= b THEN a ELSE b

-----------------------------------------------------------------------------
(* Path model: normalize_path, get_abs_path, get_rel_path                  *)

PathChars == {"/", "a"}

SeqsUpTo(S, n) == UNION {[1..k -> S] : k \in 0..n}

EndsWith(s, c) == Len(s) > 0 /\ s[Len(s)] = c
StartsWith(s, c) == Len(s) > 0 /\ s[1] = c

\* str::split('/'): the pieces between the slashes, empty pieces included.
RECURSIVE SplitSlash(_)
SplitSlash(s) ==
    IF \A i \in 1..Len(s) : s[i] /= "/"
    THEN <<s>>
    ELSE LET i == CHOOSE j \in 1..Len(s) :
                      s[j] = "/" /\ \A k \in 1..(j - 1) : s[k] /= "/"
         IN  <<SubSeq(s, 1, i - 1)>> \o SplitSlash(SubSeq(s, i + 1, Len(s)))

\* [&str]::join("/")
RECURSIVE JoinSlash(_)
JoinSlash(segs) ==
    IF Len(segs) = 0 THEN <<>>
    ELSE IF Len(segs) = 1 THEN segs[1]
    ELSE segs[1] \o <<"/">> \o JoinSlash(Tail(segs))

\* A slip: str::replace("//", "/"), which takes the pairs of slashes from
\* the left, in one pass.
RECURSIVE normalize_path_replace(_)
normalize_path_replace(path) ==
    IF Len(path) < 2 THEN path
    ELSE IF path[1] = "/" /\ path[2] = "/"
    THEN <<"/">> \o normalize_path_replace(SubSeq(path, 3, Len(path)))
    ELSE <<path[1]>> \o normalize_path_replace(Tail(path))

normalize_path(path) ==
    LET has_trailing == EndsWith(path, "/")
        p == JoinSlash(SelectSeq(SplitSlash(path), LAMBDA v : v /= <<>>))
    IN  IF has_trailing /\ p /= <<"/">> THEN Append(p, "/") ELSE p

\* str::trim_start_matches('/')
RECURSIVE TrimStartSlash(_)
TrimStartSlash(s) ==
    IF StartsWith(s, "/") THEN TrimStartSlash(Tail(s)) ELSE s

IsPrefixOf(pre, s) ==
    Len(pre) <= Len(s) /\ SubSeq(s, 1, Len(pre)) = pre

\* A slip: the root is not put in front of the path.
get_abs_path_rootless(root, path) ==
    TrimStartSlash(normalize_path(path))

get_abs_path(root, path) ==
    TrimStartSlash(root \o normalize_path(path))

\* A slip: the key is not normalized before the root is stripped.
get_rel_path_unnormalized(root, path) ==
    LET p == <<"/">> \o path
    IN  IF IsPrefixOf(root, p)
        THEN Some(SubSeq(p, Len(root) + 1, Len(p)))
        ELSE None

\* Some(the path relative to root), or None where the code reaches
\* unreachable!().
get_rel_path(root, path) ==
    LET p == <<"/">> \o normalize_path(path)
    IN  IF IsPrefixOf(root, p)
        THEN Some(SubSeq(p, Len(root) + 1, Len(p)))
        ELSE None

-----------------------------------------------------------------------------
(* Header policy: insert_sse_headers                                       *)

X_AMZ_SERVER_SIDE_ENCRYPTION == "x-amz-server-side-encryption"
X_AMZ_SERVER_SIDE_ENCRYPTION_CUSTOMER_ALGORITHM ==
    "x-amz-server-side-encryption-customer-algorithm"
X_AMZ_SERVER_SIDE_ENCRYPTION_CUSTOMER_KEY ==
    "x-amz-server-side-encryption-customer-key"
X_AMZ_SERVER_SIDE_ENCRYPTION_CUSTOMER_KEY_MD5 ==
    "x-amz-server-side-encryption-customer-key-md5"
X_AMZ_SERVER_SIDE_ENCRYPTION_AWS_KMS_KEY_ID ==
    "x-amz-server-side-encryption-aws-kms-key-id"

Header(name, value) == [name |-> name, value |-> value]

\* The header set { name: v } when the setting is Some(v), nothing otherwise.
HeaderIfSome(name, setting) ==
    IF IsSome(setting) THEN {Header(name, Unwrap(setting))} ELSE {}

\* A slip: the two write-only headers are attached whatever the operation.
insert_sse_headers_any_op(b, headers, is_write) ==
    headers
    \cup HeaderIfSome(X_AMZ_SERVER_SIDE_ENCRYPTION, b.server_side_encryption)
    \cup HeaderIfSome(X_AMZ_SERVER_SIDE_ENCRYPTION_AWS_KMS_KEY_ID,
                      b.server_side_encryption_aws_kms_key_id)
    \cup HeaderIfSome(X_AMZ_SERVER_SIDE_ENCRYPTION_CUSTOMER_ALGORITHM,
                      b.server_side_encryption_customer_algorithm)
    \cup HeaderIfSome(X_AMZ_SERVER_SIDE_ENCRYPTION_CUSTOMER_KEY,
                      b.server_side_encryption_customer_key)
    \cup HeaderIfSome(X_AMZ_SERVER_SIDE_ENCRYPTION_CUSTOMER_KEY_MD5,
                      b.server_side_encryption_customer_key_md5)

insert_sse_headers(b, headers, is_write) ==
    headers
    \cup (IF is_write
          THEN HeaderIfSome(X_AMZ_SERVER_SIDE_ENCRYPTION,
                            b.server_side_encryption)
               \cup HeaderIfSome(X_AMZ_SERVER_SIDE_ENCRYPTION_AWS_KMS_KEY_ID,
                                 b.server_side_encryption_aws_kms_key_id)
          ELSE {})
    \cup HeaderIfSome(X_AMZ_SERVER_SIDE_ENCRYPTION_CUSTOMER_ALGORITHM,
                      b.server_side_encryption_customer_algorithm)
    \cup HeaderIfSome(X_AMZ_SERVER_SIDE_ENCRYPTION_CUSTOMER_KEY,
                      b.server_side_encryption_customer_key)
    \cup HeaderIfSome(X_AMZ_SERVER_SIDE_ENCRYPTION_CUSTOMER_KEY_MD5,
                      b.server_side_encryption_customer_key_md5)

-----------------------------------------------------------------------------
(* Response interpreter: parse_error_response                              *)

\* What a response body can be: the chunks body.data() yields, by length,
\* and how the stream ends: cleanly ("eof") or with an error ("err").
ChunkLens == {100, 4096, 5000}
Bodies ==
    {[chunks |-> c, end |-> e] :
        c \in SeqsUpTo(ChunkLens, MaxChunks), e \in {"eof", "err"}}
EmptyBody == [chunks |-> <<>>, end |-> "eof"]

\* let mut limit = 4 * 1024;
InitialLimit == 4 * 1024

ErrorKind(status) ==
    CASE status = 404 -> "ObjectNotExist"
      [] status = 403 -> "ObjectPermissionDenied"
      [] OTHER        -> "Unexpected"

\* The locals of the loop.  bs is the list of slices put into the buffer,
\* each <<index of the chunk, bytes taken from its start>>.  limit is a
\* usize, kept as its two's-complement representative: a negative number
\* n stands for 2^64 + n, the value `limit -= b.len()` wraps to when built
\* without overflow checks.
ParseStart == [bs |-> <<>>, limit |-> InitialLimit, state |-> "loop"]

\* One `Ok(b)` iteration on chunk number idx of n bytes.  overflow_checks
\* is the build's setting: with it the subtraction panics on underflow,
\* without it the subtraction wraps.
ParseData(st, idx, n, overflow_checks) ==
    LET taken == IF st.limit < 0 THEN n ELSE Min(n, st.limit)
        bs == Append(st.bs, <<idx, taken>>)
        underflow == st.limit >= 0 /\ n > st.limit
        limit == st.limit - n
    IN  IF underflow /\ overflow_checks
        THEN [bs |-> bs, limit |-> st.limit, state |-> "panic"]
        ELSE [bs |-> bs, limit |-> limit,
              state |-> IF limit = 0 THEN "break" ELSE "loop"]

\* The loop from chunk number idx on, run to its end.
RECURSIVE ParseLoop(_, _, _, _)
ParseLoop(st, body, idx, overflow_checks) ==
    IF st.state /= "loop" THEN st
    ELSE IF idx > Len(body.chunks)
    THEN [st EXCEPT !.state = body.end]
    ELSE ParseLoop(ParseData(st, idx, body.chunks[idx], overflow_checks),
                   body, idx + 1, overflow_checks)

\* The errors, without their `source`, the cause's text.
ObjectError(kind, op, path) ==
    [tag |-> "Err",
     err |-> [variant |-> "Object", kind |-> kind, op |-> op, path |-> path]]
UnexpectedError == [tag |-> "Err", err |-> [variant |-> "Unexpected"]]
Panic(msg) == [tag |-> "Panic", msg |-> msg]
Ok(v) == [tag |-> "Ok", value |-> v]

\* What the function returns once the loop has ended in state st.
ParseReturn(status, op, path, st) ==
    CASE st.state = "err"   -> UnexpectedError
      [] st.state = "panic" -> Panic("attempt to subtract with overflow")
      [] OTHER              -> ObjectError(ErrorKind(status), op, path)

parse_error_response(status, body, op, path, overflow_checks) ==
    ParseReturn(status, op, path,
                ParseLoop(ParseStart, body, 1, overflow_checks))

-----------------------------------------------------------------------------
(* Builder: the setters                                                    *)

\* Builder::default()
BuilderDefault ==
    [root |-> None, bucket |-> "", credential |-> None, endpoint |-> None,
     region |-> None,
     server_side_encryption |-> None,
     server_side_encryption_aws_kms_key_id |-> None,
     server_side_encryption_customer_algorithm |-> None,
     server_side_encryption_customer_key |-> None,
     server_side_encryption_customer_key_md5 |-> None]

\* `if v.is_empty() { None } else { Some(v.to_string()) }`, for a string
\* and for a path.
NonEmptyStr(v) == IF v = "" THEN None ELSE Some(v)
NonEmptyPath(v) == IF v = <<>> THEN None ELSE Some(v)

set_root(b, root) == [b EXCEPT !.root = NonEmptyPath(root)]
set_bucket(b, bucket) == [b EXCEPT !.bucket = bucket]
set_credential(b, credential) == [b EXCEPT !.credential = Some(credential)]
set_endpoint(b, endpoint) == [b EXCEPT !.endpoint = NonEmptyStr(endpoint)]
set_region(b, region) == [b EXCEPT !.region = NonEmptyStr(region)]
set_server_side_encryption(b, v) ==
    [b EXCEPT !.server_side_encryption = NonEmptyStr(v)]
set_server_side_encryption_aws_kms_key_id(b, v) ==
    [b EXCEPT !.server_side_encryption_aws_kms_key_id = NonEmptyStr(v)]
set_server_side_encryption_customer_algorithm(b, v) ==
    [b EXCEPT !.server_side_encryption_customer_algorithm = NonEmptyStr(v)]
set_server_side_encryption_customer_key(b, v) ==
    [b EXCEPT !.server_side_encryption_customer_key = NonEmptyStr(v)]
set_server_side_encryption_customer_key_md5(b, v) ==
    [b EXCEPT !.server_side_encryption_customer_key_md5 = NonEmptyStr(v)]

server_side_encryption_with_aws_managed_kms_key(b) ==
    [b EXCEPT !.server_side_encryption = Some("aws:kms")]
server_side_encryption_with_customer_managed_kms_key(b, aws_kms_key_id) ==
    [b EXCEPT !.server_side_encryption = Some("aws:kms"),
              !.server_side_encryption_aws_kms_key_id = Some(aws_kms_key_id)]
server_side_encryption_with_s3_key(b) ==
    [b EXCEPT !.server_side_encryption = Some("AES256")]
\* key_b64 stands for base64::encode(key), key_md5_b64 for
\* base64::encode(md5::compute(key)).
server_side_encryption_with_customer_key(b, algorithm, key_b64, key_md5_b64) ==
    [b EXCEPT !.server_side_encryption_customer_algorithm = Some(algorithm),
              !.server_side_encryption_customer_key = Some(key_b64),
              !.server_side_encryption_customer_key_md5 = Some(key_md5_b64)]

-----------------------------------------------------------------------------
(* Builder: detect_region                                                  *)

\* ENDPOINT_TEMPLATES: each template is the list of its pieces, the
\* placeholder "{region}" being a piece of its own.
ENDPOINT_TEMPLATES ==
    [e \in {"https://s3.amazonaws.com"} |->
        <<"https://s3.", "{region}", ".amazonaws.com">>]

\* template.replace("{region}", region)
RECURSIVE ReplaceRegion(_, _)
ReplaceRegion(template, region) ==
    IF Len(template) = 0 THEN ""
    ELSE (IF Head(template) = "{region}" THEN region ELSE Head(template))
         \o ReplaceRegion(Tail(template), region)

\* Error::Backend { kind: Kind::BackendConfigurationInvalid, .. }; source
\* tells the places that build it apart.
ConfigError(source) ==
    [tag |-> "Err",
     err |-> [variant |-> "Backend", kind |-> "BackendConfigurationInvalid",
              source |-> source]]

\* What the probe's exchange can come to: a transport failure, or a
\* response with a status and perhaps an x-amz-bucket-region header.  A
\* header value is its text and whether HeaderValue::to_str accepts it
\* (it holds only visible ASCII).
ProbeRequest(endpoint, bucket) ==
    [method |-> "HEAD", endpoint |-> endpoint, bucket |-> bucket]

\* Header value -> Result<&str>
to_str(value) == IF value.visible_ascii THEN Ok(value.text) ELSE ConfigError("to_str")

\* `match &self.endpoint { Some(endpoint) => endpoint, None => ... }`
configured_endpoint(b) ==
    IF IsSome(b.endpoint) THEN Unwrap(b.endpoint)
    ELSE "https://s3.amazonaws.com"

\* A slip: the template table is not consulted.
resolve_explicit_verbatim(endpoint, region) == Ok(<<endpoint, region>>)

\* The branch `if let Some(region) = &self.region`.
resolve_explicit(endpoint, region) ==
    IF endpoint \in DOMAIN ENDPOINT_TEMPLATES
    THEN Ok(<<ReplaceRegion(ENDPOINT_TEMPLATES[endpoint], region), region>>)
    ELSE Ok(<<endpoint, region>>)

\* A slip: an accepted probe's region is substituted into the endpoint's
\* template, as the arm MOVED_PERMANENTLY does.
probe_accepted_substituted(endpoint, header) ==
    LET r == to_str(IF IsSome(header) THEN Unwrap(header)
                    ELSE [text |-> "us-east-1", visible_ascii |-> TRUE])
    IN  IF r.tag = "Err" THEN r
        ELSE IF endpoint \in DOMAIN ENDPOINT_TEMPLATES
        THEN Ok(<<ReplaceRegion(ENDPOINT_TEMPLATES[endpoint], r.value),
                  r.value>>)
        ELSE Ok(<<endpoint, r.value>>)

\* The arm `StatusCode::OK | StatusCode::FORBIDDEN`; header is the
\* response's x-amz-bucket-region header, if any.
probe_accepted(endpoint, header) ==
    LET r == to_str(IF IsSome(header) THEN Unwrap(header)
                    ELSE [text |-> "us-east-1", visible_ascii |-> TRUE])
    IN  IF r.tag = "Err" THEN r ELSE Ok(<<endpoint, r.value>>)

\* A slip: a moved bucket whose answer names no region falls back to
\* us-east-1, as the arm OK | FORBIDDEN does.
probe_moved_default_region(endpoint, header) ==
    LET r == to_str(IF IsSome(header) THEN Unwrap(header)
                    ELSE [text |-> "us-east-1", visible_ascii |-> TRUE])
    IN  IF r.tag = "Err" THEN r
        ELSE IF endpoint \notin DOMAIN ENDPOINT_TEMPLATES
        THEN ConfigError("no valid endpoint template")
        ELSE Ok(<<ReplaceRegion(ENDPOINT_TEMPLATES[endpoint], r.value),
                  r.value>>)

\* The arm `StatusCode::MOVED_PERMANENTLY`.
probe_moved(endpoint, header) ==
    IF ~IsSome(header)
    THEN ConfigError("can't detect region automatically, region is empty")
    ELSE LET r == to_str(Unwrap(header))
         IN  IF r.tag = "Err" THEN r
             ELSE IF endpoint \notin DOMAIN ENDPOINT_TEMPLATES
             THEN ConfigError("no valid endpoint template")
             ELSE Ok(<<ReplaceRegion(ENDPOINT_TEMPLATES[endpoint], r.value),
                       r.value>>)

\* A slip: a 403 answer is not accepted as a region hint.
probe_status_ok_only(endpoint, status, header) ==
    CASE status = 200 -> probe_accepted(endpoint, header)
      [] status = 301 -> probe_moved(endpoint, header)
      [] OTHER        -> ConfigError("unexpected response")

\* `match res.status()`
probe_status(endpoint, status, header) ==
    CASE status \in {200, 403} -> probe_accepted(endpoint, header)
      [] status = 301          -> probe_moved(endpoint, header)
      [] OTHER                 -> ConfigError("unexpected response")

\* detect_region: [res |-> Ok(<<endpoint, region>>) or Err, probes |-> the
\* requests handed to the client].  outcome is what the exchange comes to
\* if a probe is sent.
detect_region(b, bucket, outcome) ==
    LET endpoint == configured_endpoint(b)
    IN  IF IsSome(b.region)
        THEN [res |-> resolve_explicit(endpoint, Unwrap(b.region)),
              probes |-> <<>>]
        ELSE [probes |-> <<ProbeRequest(endpoint, bucket)>>,
              res |-> IF outcome.type = "transport_error"
                      THEN ConfigError("transport")
                      ELSE probe_status(endpoint, outcome.status,
                                        outcome.headers)]

-----------------------------------------------------------------------------
(* Builder: finish                                                         *)

\* A slip: the root is given its slashes but is not normalized.
FinishRoot_unnormalized(root) ==
    IF ~IsSome(root) THEN <<"/">>
    ELSE LET v0 == Unwrap(root)
             v1 == IF ~StartsWith(v0, "/") THEN <<"/">> \o v0 ELSE v0
         IN  IF ~EndsWith(v1, "/") THEN Append(v1, "/") ELSE v1

\* The root finish gives the backend.
FinishRoot(root) ==
    IF ~IsSome(root) THEN <<"/">>
    ELSE LET v0 == normalize_path(Unwrap(root))
             v1 == IF ~StartsWith(v0, "/") THEN <<"/">> \o v0 ELSE v0
         IN  IF ~EndsWith(v1, "/") THEN Append(v1, "/") ELSE v1

\* A slip: the encryption settings are cloned into the backend, not taken
\* from the builder.
finish_clone_sse(b, outcome, signer_ok) ==
    LET root == FinishRoot(b.root)
        dr == detect_region(b, b.bucket, outcome)
        failed(res, reqs) == [res |-> res, builder |-> b, probes |-> reqs]
    IN  IF b.bucket = ""
        THEN failed(ConfigError("bucket is empty"), <<>>)
        ELSE IF dr.res.tag = "Err"
        THEN failed(dr.res, dr.probes)
        ELSE IF IsSome(b.credential)
                /\ Unwrap(b.credential).type \notin {"HMAC", "Plain"}
        THEN failed(ConfigError("credential is invalid"), dr.probes)
        ELSE IF ~signer_ok
        THEN failed(UnexpectedError, dr.probes)
        ELSE [res |-> Ok(
                [root |-> root,
                 endpoint |-> dr.res.value[1],
                 signer |-> [service |-> "s3", region |-> dr.res.value[2],
                             credential |-> b.credential],
                 bucket |-> b.bucket,
                 server_side_encryption |-> b.server_side_encryption,
                 server_side_encryption_aws_kms_key_id |->
                     b.server_side_encryption_aws_kms_key_id,
                 server_side_encryption_customer_algorithm |->
                     b.server_side_encryption_customer_algorithm,
                 server_side_encryption_customer_key |->
                     b.server_side_encryption_customer_key,
                 server_side_encryption_customer_key_md5 |->
                     b.server_side_encryption_customer_key_md5]),
              builder |-> b,
              probes |-> dr.probes]

\* finish: [res |-> Ok(the Backend) or Err, builder |-> the Builder
\* afterwards, probes |-> the requests detect_region sent].  outcome is
\* what the probe's exchange comes to, signer_ok whether
\* signer_builder.build() succeeds.
finish(b, outcome, signer_ok) ==
    LET root == FinishRoot(b.root)
        dr == detect_region(b, b.bucket, outcome)
        failed(res, reqs) == [res |-> res, builder |-> b, probes |-> reqs]
    IN  IF b.bucket = ""
        THEN failed(ConfigError("bucket is empty"), <<>>)
        ELSE IF dr.res.tag = "Err"
        THEN failed(dr.res, dr.probes)
        ELSE IF IsSome(b.credential)
                /\ Unwrap(b.credential).type \notin {"HMAC", "Plain"}
        THEN failed(ConfigError("credential is invalid"), dr.probes)
        ELSE IF ~signer_ok
        THEN failed(UnexpectedError, dr.probes)
        ELSE [res |-> Ok(
                [root |-> root,
                 endpoint |-> dr.res.value[1],
                 signer |-> [service |-> "s3", region |-> dr.res.value[2],
                             credential |-> b.credential],
                 bucket |-> b.bucket,
                 server_side_encryption |-> b.server_side_encryption,
                 server_side_encryption_aws_kms_key_id |->
                     b.server_side_encryption_aws_kms_key_id,
                 server_side_encryption_customer_algorithm |->
                     b.server_side_encryption_customer_algorithm,
                 server_side_encryption_customer_key |->
                     b.server_side_encryption_customer_key,
                 server_side_encryption_customer_key_md5 |->
                     b.server_side_encryption_customer_key_md5]),
              builder |->
                [b EXCEPT !.server_side_encryption = None,
                          !.server_side_encryption_aws_kms_key_id = None,
                          !.server_side_encryption_customer_algorithm = None,
                          !.server_side_encryption_customer_key = None,
                          !.server_side_encryption_customer_key_md5 = None],
              probes |-> dr.probes]

-----------------------------------------------------------------------------
(* The values the Builder's callers and the probed store supply.           *)

UserRoots ==
    {<<>>, <<"/">>, <<"/", "/">>, <<"a">>, <<"a", "/", "/", "b", "/">>,
     <<"/", "a", "/">>}
UserBuckets == {"", "test"}
UserEndpoints ==
    {"", "https://s3.amazonaws.com", "https://s3.us-east-2.amazonaws.com",
     "http://127.0.0.1:9000"}
UserRegions == {"", "us-east-2", "eu-west-1"}
UserCredentials ==
    {[type |-> "HMAC", access_key_id |-> "ak", secret_access_key |-> "sk"],
     [type |-> "Plain"], [type |-> "Basic"]}

RegionHeaders ==
    {None, Some([text |-> "us-east-2", visible_ascii |-> TRUE]),
     Some([text |-> "\\xff", visible_ascii |-> FALSE])}
ProbeOutcomes ==
    {[type |-> "transport_error"]}
    \cup {[type |-> "response", status |-> st, headers |-> h] :
            st \in {200, 301, 403, 404}, h \in RegionHeaders}

NoBuilt == [fn |-> "none"]
NoCall == [op |-> "none"]
NoResult == [tag |-> "None"]
NoParse == [st |-> [state |-> "none"]]
NoBackend == [root |-> <<>>]
NoStream == [state |-> "none"]

\* The variables of the Accessor calls and of parse_error_response are not
\* touched by the Builder.
UnchangedAccessor == UNCHANGED <<backend, pc, call, sent, events, result>>
UnchangedParse == UNCHANGED perr
UnchangedBuilder == UNCHANGED <<builder, built, probes, nset>>
UnchangedStream == UNCHANGED stream

-----------------------------------------------------------------------------
(* The Builder's specification: setter calls on Builder::default(), and    *)
(* finish.                                                                 *)

BuildInit ==
    /\ builder = BuilderDefault
    /\ built = NoBuilt
    /\ probes = <<>>
    /\ nset = 0
    /\ stream = NoStream
    /\ backend = NoBackend
    /\ pc = "idle"
    /\ call = NoCall
    /\ sent = <<>>
    /\ events = <<>>
    /\ result = NoResult
    /\ perr = NoParse

Setter(b) ==
    /\ nset < MaxSetterCalls
    /\ builder' = b
    /\ nset' = nset + 1
    \* The caller is done with what the last finish returned.
    /\ built' = NoBuilt
    /\ probes' = <<>>
    /\ UnchangedAccessor
    /\ UnchangedParse
    /\ UnchangedStream

SetRoot == \E v \in UserRoots : Setter(set_root(builder, v))
SetBucket == \E v \in UserBuckets : Setter(set_bucket(builder, v))
SetCredential == \E v \in UserCredentials : Setter(set_credential(builder, v))
SetEndpoint == \E v \in UserEndpoints : Setter(set_endpoint(builder, v))
SetRegion == \E v \in UserRegions : Setter(set_region(builder, v))
SetSse ==
    \E v \in {"", "AES256"} : Setter(set_server_side_encryption(builder, v))
SetSseKmsKeyId ==
    \E v \in {"", "kms-key"} :
        Setter(set_server_side_encryption_aws_kms_key_id(builder, v))
SetSseCustomerAlgorithm ==
    \E v \in {"", "AES256"} :
        Setter(set_server_side_encryption_customer_algorithm(builder, v))
SetSseCustomerKey ==
    \E v \in {"", "a2V5"} :
        Setter(set_server_side_encryption_customer_key(builder, v))
SetSseCustomerKeyMd5 ==
    \E v \in {"", "bWQ1"} :
        Setter(set_server_side_encryption_customer_key_md5(builder, v))
SseWithAwsManagedKmsKey ==
    Setter(server_side_encryption_with_aws_managed_kms_key(builder))
SseWithCustomerManagedKmsKey ==
    Setter(server_side_encryption_with_customer_managed_kms_key(builder,
                                                                 "kms-key"))
SseWithS3Key == Setter(server_side_encryption_with_s3_key(builder))
SseWithCustomerKey ==
    Setter(server_side_encryption_with_customer_key(builder, "AES256",
                                                    "a2V5", "bWQ1"))

Finish ==
    \E outcome \in ProbeOutcomes, signer_ok \in BOOLEAN :
        LET f == finish(builder, outcome, signer_ok)
        IN  /\ builder' = f.builder
            /\ built' = [fn |-> "finish", of |-> builder, res |-> f.res,
                         reply |-> IF f.probes = <<>> THEN None
                                   ELSE Some(outcome),
                         again |-> IF built.fn = "finish"
                                   THEN built.res.tag = "Ok" ELSE FALSE]
            /\ probes' = f.probes
            /\ UNCHANGED nset
            /\ UnchangedAccessor
            /\ UnchangedParse
            /\ UnchangedStream

\* detect_region called on its own, as the tests call it.
DetectRegion ==
    \E outcome \in ProbeOutcomes :
        LET d == detect_region(builder, "test", outcome)
        IN  /\ built' = [fn |-> "detect_region", of |-> builder,
                         res |-> d.res,
                         reply |-> IF d.probes = <<>> THEN None
                                   ELSE Some(outcome)]
            /\ probes' = d.probes
            /\ UNCHANGED <<builder, nset>>
            /\ UnchangedAccessor
            /\ UnchangedParse
            /\ UnchangedStream

BuildNext ==
    \/ SetRoot
    \/ SetBucket
    \/ SetCredential
    \/ SetEndpoint
    \/ SetRegion
    \/ SetSse
    \/ SetSseKmsKeyId
    \/ SetSseCustomerAlgorithm
    \/ SetSseCustomerKey
    \/ SetSseCustomerKeyMd5
    \/ SseWithAwsManagedKmsKey
    \/ SseWithCustomerManagedKmsKey
    \/ SseWithS3Key
    \/ SseWithCustomerKey
    \/ DetectRegion
    \/ Finish

BuildSpec == BuildInit /\ [][BuildNext]_vars

-----------------------------------------------------------------------------
(* Request builder / dispatcher: get_object, put_object, head_object,      *)
(* delete_object, list_objects                                             *)

\* format!("{}/{}/{}", self.endpoint, self.bucket, path)
ObjectUri(b, path) ==
    [endpoint |-> b.endpoint, bucket |-> b.bucket, path |-> Some(path),
     query |-> None]

\* A slip: the continuation-token parameter is pushed even when the token
\* is empty.
ListUri_always_token(b, path, continuation_token) ==
    [endpoint |-> b.endpoint, bucket |-> b.bucket, path |-> None,
     query |-> Some([list_type |-> "2", delimiter |-> "/", prefix |-> path,
                     continuation_token |-> Some(continuation_token)])]

\* format!("{}/{}?list-type=2&delimiter=/&prefix={}", ..) and the
\* continuation-token parameter pushed when the token is not empty.
ListUri(b, path, continuation_token) ==
    [endpoint |-> b.endpoint, bucket |-> b.bucket, path |-> None,
     query |-> Some([list_type |-> "2", delimiter |-> "/", prefix |-> path,
                     continuation_token |->
                         IF continuation_token /= ""
                         THEN Some(continuation_token) ELSE None])]

Request(method, uri, headers) ==
    [method |-> method, uri |-> uri, headers |-> headers, signed |-> FALSE]

\* A slip: the signer's failure is ignored and the request goes out
\* unsigned.
SignAndSend_unsigned(req, done, sign_ok) ==
    IF sign_ok
    THEN [events |-> done \o <<"sign", "send">>,
          sent |-> <<[req EXCEPT !.signed = TRUE]>>, panicked |-> FALSE]
    ELSE [events |-> done \o <<"sign_failed", "send">>,
          sent |-> <<req>>, panicked |-> FALSE]

\* `self.signer.sign(&mut req).await.expect("sign must success")` and
\* `self.client.request(req)`: what the call has done when it awaits the
\* exchange, or when the signer's failure has made it panic.  done lists
\* the steps taken on the request so far.
SignAndSend(req, done, sign_ok) ==
    IF sign_ok
    THEN [events |-> done \o <<"sign", "send">>,
          sent |-> <<[req EXCEPT !.signed = TRUE]>>, panicked |-> FALSE]
    ELSE [events |-> Append(done, "sign_failed"),
          sent |-> <<>>, panicked |-> TRUE]

get_object(b, path, offset, size, sign_ok) ==
    LET range == IF IsSome(offset) \/ IsSome(size)
                 THEN {Header("range", [offset |-> offset, size |-> size])}
                 ELSE {}
    IN  SignAndSend(Request("GET", ObjectUri(b, path),
                            insert_sse_headers(b, range, FALSE)),
                    <<"sse">>, sign_ok)

put_object(b, path, size, sign_ok) ==
    SignAndSend(Request("PUT", ObjectUri(b, path),
                        insert_sse_headers(b, {Header("content-length", size)},
                                           TRUE)),
                <<"sse">>, sign_ok)

head_object(b, path, sign_ok) ==
    SignAndSend(Request("HEAD", ObjectUri(b, path),
                        insert_sse_headers(b, {}, FALSE)),
                <<"sse">>, sign_ok)

delete_object(b, path, sign_ok) ==
    SignAndSend(Request("DELETE", ObjectUri(b, path), {}), <<>>, sign_ok)

list_objects(b, path, continuation_token, sign_ok) ==
    SignAndSend(Request("GET", ListUri(b, path, continuation_token), {}),
                <<>>, sign_ok)

\* The map_err of `self.client.request(req).await`.
TransportError(op, path) == ObjectError("Unexpected", op, path)

-----------------------------------------------------------------------------
(* Accessor: read, write, stat, delete, list                               *)

\* Metadata::default(), of crate::object.
MetadataDefault ==
    [path |-> <<>>, content_length |-> 0, content_md5 |-> None,
     last_modified |-> None, mode |-> "Unknown", complete |-> FALSE]

\* The metadata of an empty directory: set_path, set_content_length(0),
\* set_mode(DIR), set_complete.
DirMetadata(path) ==
    [MetadataDefault EXCEPT !.path = path, !.content_length = 0,
                            !.mode = "DIR", !.complete = TRUE]

\* read, once get_object's exchange has come to outcome.
read_return(c, outcome, overflow_checks) ==
    IF outcome.type = "transport_error" THEN TransportError("read", c.p)
    ELSE IF outcome.status \in {200, 206}
    THEN Ok([type |-> "BytesStream", path |-> c.p])
    ELSE parse_error_response(outcome.status, outcome.body, "read", c.p,
                              overflow_checks)

\* `args.size as usize`, on a target whose usize holds a u64.
AsUsize(size) == size

write_return(c, outcome, overflow_checks) ==
    IF outcome.type = "transport_error" THEN TransportError("write", c.p)
    ELSE IF outcome.status \in {201, 200}
    THEN Ok(AsUsize(c.size))
    ELSE parse_error_response(outcome.status, outcome.body, "write", c.p,
                              overflow_checks)

\* The arm StatusCode::OK of stat.  A header value the code cannot parse
\* makes its expect() panic.
stat_ok(c, headers) ==
    LET cl == headers.content_length
        md5 == headers.content_md5
        lm == headers.last_modified
        m0 == [MetadataDefault EXCEPT !.path = c.path]
        m1 == IF IsSome(cl)
              THEN [m0 EXCEPT !.content_length = Unwrap(Unwrap(cl).parsed)]
              ELSE m0
        m2 == IF IsSome(md5) THEN [m1 EXCEPT !.content_md5 = md5] ELSE m1
        m3 == IF IsSome(lm)
              THEN [m2 EXCEPT !.last_modified = Unwrap(lm).parsed]
              ELSE m2
        m4 == [m3 EXCEPT !.mode = IF EndsWith(c.p, "/") THEN "DIR" ELSE "FILE",
                         !.complete = TRUE]
    IN  IF IsSome(cl) /\ ~IsSome(Unwrap(cl).parsed)
        THEN Panic("content length header must contain valid length")
        ELSE IF IsSome(lm) /\ ~IsSome(Unwrap(lm).parsed)
        THEN Panic("must contain valid time format")
        ELSE Ok(m4)

\* A slip: a 404 is an error whatever the key.
stat_return_no_implicit_dir(c, outcome, overflow_checks) ==
    IF outcome.type = "transport_error" THEN TransportError("stat", c.p)
    ELSE IF outcome.status = 200
    THEN stat_ok(c, outcome.headers)
    ELSE parse_error_response(outcome.status, outcome.body, "stat", c.p,
                              overflow_checks)

stat_return(c, outcome, overflow_checks) ==
    IF outcome.type = "transport_error" THEN TransportError("stat", c.p)
    ELSE IF outcome.status = 200
    THEN stat_ok(c, outcome.headers)
    ELSE IF outcome.status = 404 /\ EndsWith(c.p, "/")
    THEN Ok(DirMetadata(c.path))
    ELSE parse_error_response(outcome.status, outcome.body, "stat", c.p,
                              overflow_checks)

delete_return(c, outcome, overflow_checks) ==
    IF outcome.type = "transport_error" THEN TransportError("delete", c.p)
    ELSE IF outcome.status = 204
    THEN Ok("unit")
    ELSE parse_error_response(outcome.status, outcome.body, "delete", c.p,
                              overflow_checks)

\* list_objects hands the response itself to its caller.
list_objects_return(c, outcome) ==
    IF outcome.type = "transport_error" THEN TransportError("list", c.p)
    ELSE Ok([type |-> "Response", status |-> outcome.status])

\* The prefix list gives its stream.
list_path(root, path) ==
    LET p == get_abs_path(root, path)
    IN  IF ~EndsWith(p, "/") /\ p /= <<>> THEN Append(p, "/") ELSE p

-----------------------------------------------------------------------------
(* The values the Accessor's callers and the store supply.                 *)

Paths == SeqsUpTo(PathChars, MaxPathLen)
ReadRanges == {<<None, None>>, <<Some(10), Some(5)>>}
WriteSizes == {0, 5}
ContinuationTokens == {"", "T1"}

Statuses == {200, 201, 204, 206, 403, 404, 500}

\* Error bodies: short, exactly the limit, longer than the limit, in one
\* chunk or two.
ErrorBodies ==
    {[chunks |-> c, end |-> e] :
        c \in {<<>>, <<100>>, <<4096>>, <<5000>>, <<100, 5000>>,
               <<5000, 100>>, <<4096, 100>>},
        e \in {"eof", "err"}}

\* The response headers stat reads: a value is its text and what the
\* code's parser makes of it, None where it fails.
StatHeaders ==
    [content_length : {None, Some([text |-> "7", parsed |-> Some(7)]),
                       Some([text |-> "x", parsed |-> None])},
     content_md5 : {None, Some("md5")},
     last_modified : {None,
                      Some([text |-> "Wed, 21 Oct 2015 07:28:00 GMT",
                            parsed |-> Some("2015-10-21T07:28:00Z")]),
                      Some([text |-> "yesterday", parsed |-> None])}]

NoHeaders ==
    [content_length |-> None, content_md5 |-> None, last_modified |-> None]

\* What an exchange can come to.  The body is read only by
\* parse_error_response; the response to a HEAD request has none.
Responses(method) ==
    IF method = "HEAD"
    THEN UNION {{[type |-> "response", status |-> st, headers |-> h,
                  body |-> EmptyBody] :
                    h \in IF st = 200 THEN StatHeaders ELSE {NoHeaders}} :
                st \in Statuses}
    ELSE {[type |-> "response", status |-> st, headers |-> NoHeaders,
           body |-> b] :
             st \in Statuses, b \in ErrorBodies}
Outcomes(method) == {[type |-> "transport_error"]} \cup Responses(method)

\* The builders whose backends the Accessor's specification starts from:
\* any root, any of the encryption settings, a bucket and a region.
SseSettings ==
    [server_side_encryption : {None, Some("aws:kms")},
     server_side_encryption_aws_kms_key_id : {None, Some("kms-key")},
     server_side_encryption_customer_algorithm : {None, Some("AES256")},
     server_side_encryption_customer_key : {None, Some("a2V5")},
     server_side_encryption_customer_key_md5 : {None, Some("bWQ1")}]

WithSse(b, sse) ==
    [b EXCEPT
       !.server_side_encryption = sse.server_side_encryption,
       !.server_side_encryption_aws_kms_key_id =
           sse.server_side_encryption_aws_kms_key_id,
       !.server_side_encryption_customer_algorithm =
           sse.server_side_encryption_customer_algorithm,
       !.server_side_encryption_customer_key =
           sse.server_side_encryption_customer_key,
       !.server_side_encryption_customer_key_md5 =
           sse.server_side_encryption_customer_key_md5]

AccessorBuilders ==
    {WithSse(set_region(set_bucket(set_root(BuilderDefault, r), "test"),
                        "us-east-2"), sse) :
        r \in UserRoots, sse \in SseSettings}

-----------------------------------------------------------------------------
(* The Accessor's specification: calls on a Backend that finish built.     *)

Init ==
    /\ builder = BuilderDefault
    /\ built = NoBuilt
    /\ probes = <<>>
    /\ nset = 0
    /\ stream = NoStream
    /\ \E b \in AccessorBuilders :
           backend = finish(b, [type |-> "transport_error"], TRUE).res.value
    /\ pc = "idle"
    /\ call = NoCall
    /\ sent = <<>>
    /\ events = <<>>
    /\ result = NoResult
    /\ perr = NoParse

\* The call c starts: d is what its request function did.
Start(c, d) ==
    /\ call' = c
    /\ events' = d.events
    /\ sent' = d.sent
    /\ pc' = IF d.panicked THEN "done" ELSE "await"
    /\ result' = IF d.panicked THEN Panic("sign must success") ELSE NoResult
    /\ UNCHANGED backend
    /\ UnchangedBuilder
    /\ UnchangedParse
    /\ UnchangedStream

\* The call ends with the result r, having been answered status (None
\* for a transport failure).
Finished(r, outcome) ==
    /\ result' = r
    /\ pc' = "done"
    /\ call' = [call EXCEPT !.status =
                   IF outcome.type = "response" THEN Some(outcome.status)
                   ELSE None]
    /\ UNCHANGED <<backend, sent, events>>
    /\ UnchangedBuilder
    /\ UnchangedParse
    /\ UnchangedStream

Read ==
    /\ pc = "idle"
    /\ \E path \in Paths, range \in ReadRanges, sign_ok \in BOOLEAN :
           LET p == get_abs_path(backend.root, path)
           IN  Start([op |-> "read", path |-> path, p |-> p,
                      offset |-> range[1], size |-> range[2],
                      status |-> None],
                     get_object(backend, p, range[1], range[2], sign_ok))

ReadReturn ==
    /\ pc = "await"
    /\ call.op = "read"
    /\ \E outcome \in Outcomes("GET"), overflow_checks \in BOOLEAN :
           Finished(read_return(call, outcome, overflow_checks), outcome)

Write ==
    /\ pc = "idle"
    /\ \E path \in Paths, size \in WriteSizes, sign_ok \in BOOLEAN :
           LET p == get_abs_path(backend.root, path)
           IN  Start([op |-> "write", path |-> path, p |-> p, size |-> size,
                      status |-> None],
                     put_object(backend, p, size, sign_ok))

WriteReturn ==
    /\ pc = "await"
    /\ call.op = "write"
    /\ \E outcome \in Outcomes("PUT"), overflow_checks \in BOOLEAN :
           Finished(write_return(call, outcome, overflow_checks), outcome)

\* stat up to its first await: the root is answered at once.
Stat ==
    /\ pc = "idle"
    /\ \E path \in Paths, sign_ok \in BOOLEAN :
           LET p == get_abs_path(backend.root, path)
               rel == get_rel_path(backend.root, p)
               c == [op |-> "stat", path |-> path, p |-> p, status |-> None]
           IN  IF ~IsSome(rel) \/ Unwrap(rel) = <<>>
               THEN /\ call' = c
                    /\ result' = IF IsSome(rel) THEN Ok(DirMetadata(path))
                                 ELSE Panic("unreachable")
                    /\ pc' = "done"
                    /\ UNCHANGED <<backend, sent, events>>
                    /\ UnchangedBuilder
                    /\ UnchangedParse
                    /\ UnchangedStream
               ELSE Start(c, head_object(backend, p, sign_ok))

StatReturn ==
    /\ pc = "await"
    /\ call.op = "stat"
    /\ \E outcome \in Outcomes("HEAD"), overflow_checks \in BOOLEAN :
           Finished(stat_return(call, outcome, overflow_checks), outcome)

Delete ==
    /\ pc = "idle"
    /\ \E path \in Paths, sign_ok \in BOOLEAN :
           LET p == get_abs_path(backend.root, path)
           IN  Start([op |-> "delete", path |-> path, p |-> p,
                      status |-> None],
                     delete_object(backend, p, sign_ok))

DeleteReturn ==
    /\ pc = "await"
    /\ call.op = "delete"
    /\ \E outcome \in Outcomes("DELETE"), overflow_checks \in BOOLEAN :
           Finished(delete_return(call, outcome, overflow_checks), outcome)

\* list makes the stream and sends nothing.
List ==
    /\ pc = "idle"
    /\ \E path \in Paths :
           LET p == list_path(backend.root, path)
           IN  /\ call' = [op |-> "list", path |-> path, p |-> p,
                           status |-> None]
               /\ result' = Ok([type |-> "S3ObjectStream", path |-> p])
               /\ pc' = "done"
               /\ UNCHANGED <<backend, sent, events>>
               /\ UnchangedBuilder
               /\ UnchangedParse
               /\ UnchangedStream

\* A list-page call, on a prefix that list gave a stream.
ListObjects ==
    /\ pc = "idle"
    /\ \E path \in Paths, token \in ContinuationTokens, sign_ok \in BOOLEAN :
           LET p == list_path(backend.root, path)
           IN  Start([op |-> "list_objects", path |-> path, p |-> p,
                      token |-> token, status |-> None],
                     list_objects(backend, p, token, sign_ok))

ListObjectsReturn ==
    /\ pc = "await"
    /\ call.op = "list_objects"
    /\ \E outcome \in Outcomes("GET") :
           Finished(list_objects_return(call, outcome), outcome)

\* The caller takes the result; the backend is ready for the next call.
Return ==
    /\ pc = "done"
    /\ pc' = "idle"
    /\ call' = NoCall
    /\ sent' = <<>>
    /\ events' = <<>>
    /\ result' = NoResult
    /\ UNCHANGED backend
    /\ UnchangedBuilder
    /\ UnchangedParse
    /\ UnchangedStream

Next ==
    \/ Read
    \/ ReadReturn
    \/ Write
    \/ WriteReturn
    \/ Stat
    \/ StatReturn
    \/ Delete
    \/ DeleteReturn
    \/ List
    \/ ListObjects
    \/ ListObjectsReturn
    \/ Return

Spec == Init /\ [][Next]_vars

-----------------------------------------------------------------------------
(* parse_error_response's specification: the function on its own, one     *)
(* step of its loop at a time, on an error response of any status and      *)
(* body.                                                                   *)

ErrorStatuses == {301, 403, 404, 500}
ErrorOps == {"read", "write", "stat", "delete"}

ParseInit ==
    /\ builder = BuilderDefault
    /\ built = NoBuilt
    /\ probes = <<>>
    /\ nset = 0
    /\ stream = NoStream
    /\ backend = NoBackend
    /\ pc = "idle"
    /\ call = NoCall
    /\ sent = <<>>
    /\ events = <<>>
    /\ result = NoResult
    /\ \E status \in ErrorStatuses, op \in ErrorOps, body \in Bodies,
          overflow_checks \in BOOLEAN :
           perr = [status |-> status, op |-> op, path |-> <<"a">>,
                   body |-> body, overflow_checks |-> overflow_checks,
                   idx |-> 1, st |-> ParseStart, returned |-> NoResult]

ParseFrame ==
    /\ UnchangedBuilder
    /\ UnchangedStream
    /\ UNCHANGED <<backend, pc, call, sent, events, result>>

\* `while let Some(b) = body.data().await`, with b an Ok chunk.
ParseChunk ==
    /\ perr.st.state = "loop"
    /\ perr.idx <= Len(perr.body.chunks)
    /\ perr' = [perr EXCEPT
                  !.st = ParseData(perr.st, perr.idx,
                                   perr.body.chunks[perr.idx],
                                   perr.overflow_checks),
                  !.idx = perr.idx + 1]
    /\ ParseFrame

\* body.data() yields None, or an Err, after the last chunk.
ParseEnd ==
    /\ perr.st.state = "loop"
    /\ perr.idx > Len(perr.body.chunks)
    /\ perr' = [perr EXCEPT !.st.state = perr.body.end]
    /\ ParseFrame

\* The function returns (or has panicked).
ParseDone ==
    /\ perr.st.state \in {"break", "eof", "err", "panic"}
    /\ perr.returned = NoResult
    /\ perr' = [perr EXCEPT
                  !.returned = ParseReturn(perr.status, perr.op, perr.path,
                                           perr.st)]
    /\ ParseFrame

ParseNext ==
    \/ ParseChunk
    \/ ParseEnd
    \/ ParseDone

ParseSpec == ParseInit /\ [][ParseNext]_vars

-----------------------------------------------------------------------------
(* The path functions' specification: normalize_path, get_abs_path and     *)
(* get_rel_path called on their own, on a Backend that finish built.       *)
(* normalize_path is applied to any path and then to its own result,       *)
(* get_rel_path to the keys get_abs_path returns.                          *)

InputChars == {"/", "a", "b"}
PathInputs == SeqsUpTo(InputChars, MaxInputLen)

PathBuilders ==
    {set_region(set_bucket(set_root(BuilderDefault, r), "test"), "us-east-2") :
        r \in UserRoots}

PathInit ==
    /\ builder = BuilderDefault
    /\ built = NoBuilt
    /\ probes = <<>>
    /\ nset = 0
    /\ stream = NoStream
    /\ \E b \in PathBuilders :
           backend = finish(b, [type |-> "transport_error"], TRUE).res.value
    /\ pc = "idle"
    /\ call = NoCall
    /\ sent = <<>>
    /\ events = <<>>
    /\ result = NoResult
    /\ perr = NoParse

\* A path function is called with path and returns r; of is the path the
\* caller started from, n the number of functions applied to it so far.
PathCall(fn, path, of, n, r) ==
    /\ call' = [op |-> fn, path |-> path, of |-> of, n |-> n]
    /\ result' = r
    /\ pc' = "done"
    /\ UNCHANGED <<backend, sent, events>>
    /\ UnchangedBuilder
    /\ UnchangedParse
    /\ UnchangedStream

NormalizePath ==
    /\ pc = "idle"
    /\ \E path \in PathInputs :
           PathCall("normalize_path", path, path, 1, Ok(normalize_path(path)))

\* normalize_path applied to what normalize_path returned.
NormalizeAgain ==
    /\ pc = "done"
    /\ call.op = "normalize_path"
    /\ call.n = 1
    /\ PathCall("normalize_path", result.value, call.of, 2,
                Ok(normalize_path(result.value)))

GetAbsPath ==
    /\ pc = "idle"
    /\ \E path \in PathInputs :
           PathCall("get_abs_path", path, path, 1,
                    Ok(get_abs_path(backend.root, path)))

\* get_rel_path applied to the key get_abs_path returned.
GetRelPath ==
    /\ pc = "done"
    /\ call.op = "get_abs_path"
    /\ LET rel == get_rel_path(backend.root, result.value)
       IN  PathCall("get_rel_path", result.value, call.of, 2,
                    IF IsSome(rel) THEN Ok(Unwrap(rel))
                    ELSE Panic("unreachable"))

PathNext ==
    \/ NormalizePath
    \/ NormalizeAgain
    \/ GetAbsPath
    \/ GetRelPath
    \/ Return

PathSpec == PathInit /\ [][PathNext]_vars

-----------------------------------------------------------------------------
(* The list stream's specification: list makes an S3ObjectStream, its      *)
(* consumer polls it, and the stream calls list_objects for its pages.     *)
(* The stream's own code (object_stream.rs) is modelled from its           *)
(* description: its fields are the prefix, the entries of the current      *)
(* page, the cursor within them, the continuation token and whether the    *)
(* listing is exhausted.                                                   *)

\* S3ObjectStream::new(backend, path)
S3ObjectStream_new(path) ==
    [prefix |-> path, entries |-> <<>>, cursor |-> 0,
     continuation_token |-> "", exhausted |-> FALSE, state |-> "ready",
     pages |-> <<>>, yielded |-> <<>>, polled_after_end |-> FALSE]

\* The continuation token the store gives with its k-th page when more
\* pages follow.
TokenAfter(k) == "T" \o ToString(k)

\* The pages the store can answer the next list-page call with, after it
\* has answered n: up to two entries, and a token unless the page is the
\* last of the listing.
PageSizes == 0..2
ListingPages(n) ==
    {[entries |-> [j \in 1..size |-> [page |-> n + 1, index |-> j]],
      next |-> next] :
        size \in PageSizes,
        next \in {""} \cup (IF n + 1 < MaxPages THEN {TokenAfter(n + 1)}
                            ELSE {})}

\* The stream refilled from a page.
Refilled(st, page) ==
    [st EXCEPT !.entries = page.entries, !.cursor = 0,
               !.continuation_token = page.next,
               !.exhausted = (page.next = ""),
               !.state = "ready",
               !.pages = Append(st.pages, page)]

ListInit ==
    /\ builder = BuilderDefault
    /\ built = NoBuilt
    /\ probes = <<>>
    /\ nset = 0
    /\ stream = NoStream
    /\ \E b \in PathBuilders :
           backend = finish(b, [type |-> "transport_error"], TRUE).res.value
    /\ pc = "idle"
    /\ call = NoCall
    /\ sent = <<>>
    /\ events = <<>>
    /\ result = NoResult
    /\ perr = NoParse

ListFrame ==
    /\ UNCHANGED <<backend, pc, call, events, result>>
    /\ UnchangedBuilder
    /\ UnchangedParse

\* list: the stream is made, and nothing is sent.
ListStream ==
    /\ stream = NoStream
    /\ \E path \in Paths :
           stream' = S3ObjectStream_new(list_path(backend.root, path))
    /\ UNCHANGED sent
    /\ ListFrame

\* The consumer polls, and the current page has an entry left.
PollYield ==
    /\ stream.state = "ready"
    /\ stream.cursor < Len(stream.entries)
    /\ stream' = [stream EXCEPT
                    !.cursor = stream.cursor + 1,
                    !.yielded = Append(stream.yielded,
                                       stream.entries[stream.cursor + 1])]
    /\ UNCHANGED sent
    /\ ListFrame

\* The consumer polls, the current page is used up and more may follow:
\* the stream calls list_objects with its token.
PollRefill ==
    /\ stream.state = "ready"
    /\ stream.cursor = Len(stream.entries)
    /\ ~stream.exhausted
    /\ \E sign_ok \in BOOLEAN :
           LET d == list_objects(backend, stream.prefix,
                                 stream.continuation_token, sign_ok)
           IN  /\ sent' = sent \o d.sent
               /\ stream' = [stream EXCEPT
                               !.state = IF d.panicked THEN "panicked"
                                         ELSE "sending"]
    /\ ListFrame

\* list_objects returns: a page, or a failure, which ends the stream.
RefillReturn ==
    /\ stream.state = "sending"
    /\ \/ \E page \in ListingPages(Len(stream.pages)) :
              stream' = Refilled(stream, page)
       \/ stream' = [stream EXCEPT !.state = "failed"]
    /\ UNCHANGED sent
    /\ ListFrame

\* The consumer polls, the current page is used up and the listing is
\* exhausted: the stream ends.
PollEnd ==
    /\ stream.state = "ready"
    /\ stream.cursor = Len(stream.entries)
    /\ stream.exhausted
    /\ stream' = [stream EXCEPT !.state = "terminated"]
    /\ UNCHANGED sent
    /\ ListFrame

\* The consumer polls a stream that has ended or failed: nothing more
\* comes of it.
PollAfterEnd ==
    /\ stream.state \in {"terminated", "failed"}
    /\ ~stream.polled_after_end
    /\ stream' = [stream EXCEPT !.polled_after_end = TRUE]
    /\ UNCHANGED sent
    /\ ListFrame

ListNext ==
    \/ ListStream
    \/ PollYield
    \/ PollRefill
    \/ RefillReturn
    \/ PollEnd
    \/ PollAfterEnd

\* The consumer goes on polling and the store goes on answering.
ListSpec == ListInit /\ [][ListNext]_vars /\ WF_vars(ListNext)

-----------------------------------------------------------------------------
(* Properties of endpoint resolution.                                      *)

\* The endpoint the Builder given to the last finish / detect_region had
\* configured, the global endpoint standing for none.
BuiltEndpoint ==
    IF built.of.endpoint = None THEN "https://s3.amazonaws.com"
    ELSE Unwrap(built.of.endpoint)

\* What the last probe was answered, when it was answered with a response.
ProbeAnswered ==
    /\ built.fn \in {"detect_region", "finish"}
    /\ IsSome(built.reply)
    /\ Unwrap(built.reply).type = "response"

\* C9: with a region set, endpoint resolution sends no request and
\* returns the region unchanged, with the regional endpoint
\* https://s3.<region>.amazonaws.com when the configured endpoint is none
\* or the global one, and the configured endpoint verbatim otherwise; a
\* backend that finish then builds has this endpoint and signs for this
\* region.
C9_ExplicitRegion ==
    (built.fn \in {"detect_region", "finish"} /\ IsSome(built.of.region)) =>
        LET region == Unwrap(built.of.region)
            expected ==
                IF built.of.endpoint \in {None, Some("https://s3.amazonaws.com")}
                THEN "https://s3." \o region \o ".amazonaws.com"
                ELSE Unwrap(built.of.endpoint)
        IN  /\ probes = <<>>
            /\ built.fn = "detect_region" =>
                   built.res = Ok(<<expected, region>>)
            /\ (built.fn = "finish" /\ built.res.tag = "Ok") =>
                   /\ built.res.value.endpoint = expected
                   /\ built.res.value.signer.region = region
            /\ (region = "us-east-2"
                /\ built.of.endpoint \in
                     {None, Some("https://s3.amazonaws.com"),
                      Some("https://s3.us-east-2.amazonaws.com")}
                /\ built.fn = "detect_region") =>
                   built.res =
                       Ok(<<"https://s3.us-east-2.amazonaws.com", "us-east-2">>)

\* C9's case: region us-east-2 with the global endpoint configured.
C9_Witness ==
    /\ built.fn = "detect_region"
    /\ built.of.region = Some("us-east-2")
    /\ built.of.endpoint = Some("https://s3.amazonaws.com")
    /\ built.res = Ok(<<"https://s3.us-east-2.amazonaws.com", "us-east-2">>)
    /\ probes = <<>>

\* C10 as stated: with no region set and a probe answered 200 or 403,
\* resolution succeeds with the endpoint unchanged and the region of the
\* x-amz-bucket-region header, or us-east-1 when there is no such header.
C10_Original ==
    (ProbeAnswered /\ built.fn = "detect_region"
     /\ Unwrap(built.reply).status \in {200, 403}) =>
        LET h == Unwrap(built.reply).headers
        IN  built.res = Ok(<<BuiltEndpoint,
                             IF h = None THEN "us-east-1" ELSE Unwrap(h).text>>)

\* C10, amended: with no region set and a probe answered 200 or 403,
\* resolution succeeds with the endpoint unchanged and the region of the
\* x-amz-bucket-region header when that header's value is visible ASCII,
\* or us-east-1 when there is no such header; when the header's value is
\* not visible ASCII, resolution fails with BackendConfigurationInvalid.
C10_ProbeAccepted ==
    (ProbeAnswered /\ Unwrap(built.reply).status \in {200, 403}) =>
        LET h == Unwrap(built.reply).headers
            region == IF h = None THEN "us-east-1" ELSE Unwrap(h).text
            readable == h = None \/ Unwrap(h).visible_ascii
        IN  /\ ~IsSome(built.of.region)
            /\ Len(probes) = 1
            /\ (built.fn = "detect_region" /\ readable) =>
                   built.res = Ok(<<BuiltEndpoint, region>>)
            /\ (built.fn = "finish" /\ readable /\ built.res.tag = "Ok") =>
                   /\ built.res.value.endpoint = BuiltEndpoint
                   /\ built.res.value.signer.region = region
            /\ ~readable =>
                   /\ built.res.tag = "Err"
                   /\ built.res.err.kind = "BackendConfigurationInvalid"

\* C10's case: a probe answered 403 with a region header.
C10_Witness ==
    /\ ProbeAnswered
    /\ built.fn = "detect_region"
    /\ Unwrap(built.reply).status = 403
    /\ Unwrap(built.reply).headers =
           Some([text |-> "us-east-2", visible_ascii |-> TRUE])
    /\ built.res = Ok(<<BuiltEndpoint, "us-east-2">>)

\* The probe of the global endpoint, sent with no region set, was
\* answered 200 with the header x-amz-bucket-region: us-east-2.
C11_Case ==
    /\ ProbeAnswered
    /\ BuiltEndpoint = "https://s3.amazonaws.com"
    /\ ~IsSome(built.of.region)
    /\ Unwrap(built.reply).status = 200
    /\ Unwrap(built.reply).headers =
           Some([text |-> "us-east-2", visible_ascii |-> TRUE])

\* C11 as stated: with the global endpoint, no region set and a probe
\* answered 200 with x-amz-bucket-region: us-east-2, resolution yields the
\* region us-east-2 and the regional endpoint
\* https://s3.us-east-2.amazonaws.com, the pair an explicit region
\* us-east-2 yields.
C11_Original ==
    (C11_Case /\ built.fn = "detect_region") =>
        /\ built.res =
               Ok(<<"https://s3.us-east-2.amazonaws.com", "us-east-2">>)
        /\ built.res = resolve_explicit(BuiltEndpoint, "us-east-2")

\* C11, amended: with the global endpoint, no region set and a probe
\* answered 200 with x-amz-bucket-region: us-east-2, resolution yields the
\* region us-east-2 and the endpoint unchanged, https://s3.amazonaws.com:
\* the region of the pair an explicit region us-east-2 yields, but not its
\* endpoint; a backend finish then builds has this endpoint and signs for
\* this region.
C11_ProbedRegion ==
    C11_Case =>
        /\ Len(probes) = 1
        /\ probes[1].endpoint = "https://s3.amazonaws.com"
        /\ built.fn = "detect_region" =>
               /\ built.res = Ok(<<"https://s3.amazonaws.com", "us-east-2">>)
               /\ built.res.value[2] =
                      resolve_explicit(BuiltEndpoint, "us-east-2").value[2]
               /\ built.res.value[1] /=
                      resolve_explicit(BuiltEndpoint, "us-east-2").value[1]
        /\ (built.fn = "finish" /\ built.res.tag = "Ok") =>
               /\ built.res.value.endpoint = "https://s3.amazonaws.com"
               /\ built.res.value.signer.region = "us-east-2"

\* C11's case: Builder::default(), as the test makes it, probed and
\* answered 200 with the region header.
C11_Witness ==
    /\ C11_Case
    /\ built.fn = "detect_region"
    /\ built.of.endpoint = None
    /\ built.res = Ok(<<"https://s3.amazonaws.com", "us-east-2">>)

\* The result is a configuration error: no backend, and an Error::Backend
\* of kind BackendConfigurationInvalid.
IsConfigError(res) ==
    /\ res.tag = "Err"
    /\ res.err.variant = "Backend"
    /\ res.err.kind = "BackendConfigurationInvalid"

\* C12: with no region set, finish builds no backend and returns a
\* BackendConfigurationInvalid error when the probe fails at transport
\* level, when it is answered 301 without an x-amz-bucket-region header,
\* when it is answered 301 and the endpoint has no template, and when it
\* is answered any status other than 200, 403 and 301.  When the probe is
\* answered 301 with the header and the endpoint has a template, the
\* endpoint resolved is the template with the header's region in it (a
\* header value that is not visible ASCII names no region: resolution
\* fails with BackendConfigurationInvalid).
C12_ProbeFailures ==
    (built.fn \in {"detect_region", "finish"} /\ IsSome(built.reply)) =>
        LET reply == Unwrap(built.reply)
            templated == BuiltEndpoint \in DOMAIN ENDPOINT_TEMPLATES
            fatal ==
                \/ reply.type = "transport_error"
                \/ /\ reply.type = "response"
                   /\ \/ reply.status = 301 /\ reply.headers = None
                      \/ reply.status = 301 /\ ~templated
                      \/ reply.status \notin {200, 403, 301}
            moved ==
                /\ reply.type = "response"
                /\ reply.status = 301
                /\ IsSome(reply.headers)
                /\ templated
        IN  /\ ~IsSome(built.of.region)
            /\ fatal => IsConfigError(built.res)
            /\ moved =>
                   LET h == Unwrap(reply.headers)
                       regional == "https://s3." \o h.text \o ".amazonaws.com"
                   IN  /\ built.fn = "detect_region" =>
                              IF h.visible_ascii
                              THEN built.res = Ok(<<regional, h.text>>)
                              ELSE IsConfigError(built.res)
                       /\ (built.fn = "finish" /\ built.res.tag = "Ok") =>
                              /\ h.visible_ascii
                              /\ built.res.value.endpoint = regional
                              /\ built.res.value.signer.region = h.text

\* C12's case: finish on a builder with a bucket and no region, whose
\* probe is answered 301 with no region header.
C12_Witness ==
    /\ built.fn = "finish"
    /\ built.of.bucket = "test"
    /\ ProbeAnswered
    /\ Unwrap(built.reply).status = 301
    /\ Unwrap(built.reply).headers = None
    /\ Len(probes) = 1
    /\ IsConfigError(built.res)

-----------------------------------------------------------------------------
(* Properties of parse_error_response.                                     *)

RECURSIVE SumTaken(_)
SumTaken(bs) == IF bs = <<>> THEN 0 ELSE bs[1][2] + SumTaken(Tail(bs))

\* The slices in bs, put end to end, are the first bytes of the body: the
\* i-th slice is taken from the i-th chunk, and every slice but the last
\* is its whole chunk.
IsBodyPrefix(bs, chunks) ==
    /\ Len(bs) <= Len(chunks)
    /\ \A i \in 1..Len(bs) :
           /\ bs[i][1] = i
           /\ bs[i][2] <= chunks[i]
           /\ i < Len(bs) => bs[i][2] = chunks[i]

\* C2: parse_error_response accumulates at most 4096 bytes of the body,
\* however it is chunked: limit never goes below 0, the loop stops once
\* 4096 bytes have been taken, and the bytes accumulated are a prefix of
\* the body.
C2_BodyCapped ==
    (perr.st.state /= "none") =>
        /\ perr.st.limit >= 0
        /\ perr.st.limit <= 4096
        /\ SumTaken(perr.st.bs) <= 4096
        /\ SumTaken(perr.st.bs) >= 4096 => perr.st.state /= "loop"
        /\ IsBodyPrefix(perr.st.bs, perr.body.chunks)

-----------------------------------------------------------------------------
(* Properties of the Accessor's calls.                                     *)

\* The current call has been answered with a response and has ended.
Answered == pc = "done" /\ call.op /= "none" /\ IsSome(call.status)
AnsweredStatus == Unwrap(call.status)

\* The statuses on which an operation succeeds.
SuccessStatuses ==
    CASE call.op = "read"   -> {200, 206}
      [] call.op = "write"  -> {200, 201}
      [] call.op = "delete" -> {204}
      [] call.op = "stat"   -> IF EndsWith(call.p, "/") THEN {200, 404}
                               ELSE {200}
      [] OTHER              -> {}

\* Error::kind(), of crate::error: the kind of an Error::Unexpected is
\* Kind::Unexpected.
KindOf(err) == IF err.variant = "Unexpected" THEN "Unexpected" ELSE err.kind

\* The name an operation's errors carry.
OpName == IF call.op = "list_objects" THEN "list" ELSE call.op

HasHeader(req, name) == \E h \in req.headers : h.name = name

\* C1: a read, write, stat or delete answered with a status that is no
\* success for it returns an error of kind NotFound for 404,
\* PermissionDenied for 403 and Unexpected otherwise, whatever the body,
\* a body whose stream fails included.
C1_ErrorKinds ==
    (Answered /\ call.op \in {"read", "write", "stat", "delete"}
     /\ AnsweredStatus \notin SuccessStatuses) =>
        /\ result.tag = "Err"
        /\ KindOf(result.err) =
               (CASE AnsweredStatus = 404 -> "ObjectNotExist"
                  [] AnsweredStatus = 403 -> "ObjectPermissionDenied"
                  [] OTHER                -> "Unexpected")

\* C3: every failure returned by read, write, stat, delete or a list-page
\* call carries the name of the operation and the affected path.
C3_ErrorsCarryOpAndPath ==
    (pc = "done" /\ call.op /= "none" /\ result.tag = "Err") =>
        /\ result.err.variant = "Object"
        /\ result.err.op = OpName
        /\ result.err.path = call.p

\* C4: the response status alone decides the outcome: read returns a
\* stream iff it is 200 or 206, write the declared size iff it is 200 or
\* 201, delete success iff it is 204; every other status yields an error;
\* the call makes exactly one exchange.
C4_StatusDecides ==
    (Answered /\ call.op \in {"read", "write", "delete"}) =>
        /\ Len(sent) = 1
        /\ AnsweredStatus \in SuccessStatuses =>
               result = (CASE call.op = "read" ->
                                  Ok([type |-> "BytesStream", path |-> call.p])
                           [] call.op = "write" -> Ok(call.size)
                           [] OTHER -> Ok("unit"))
        /\ AnsweredStatus \notin SuccessStatuses => result.tag = "Err"

\* C5: stat answered 404 returns {mode: DIR, content_length: 0} when the
\* key ends with '/', and a NotFound error when it does not; the metadata
\* stat returns on 200 has mode DIR iff the key ends with '/', and FILE
\* otherwise.
C5_StatNotFound ==
    (Answered /\ call.op = "stat") =>
        /\ (AnsweredStatus = 404 /\ EndsWith(call.p, "/")) =>
               /\ result.tag = "Ok"
               /\ result.value.mode = "DIR"
               /\ result.value.content_length = 0
        /\ (AnsweredStatus = 404 /\ ~EndsWith(call.p, "/")) =>
               /\ result.tag = "Err"
               /\ result.err.variant = "Object"
               /\ result.err.kind = "ObjectNotExist"
               /\ result.err.op = "stat"
        /\ (AnsweredStatus = 200 /\ result.tag = "Ok") =>
               result.value.mode =
                   (IF EndsWith(call.p, "/") THEN "DIR" ELSE "FILE")

\* C5's case: a key with a trailing slash, answered 404.
C5_Witness ==
    /\ Answered
    /\ call.op = "stat"
    /\ AnsweredStatus = 404
    /\ call.p = <<"a", "/">>
    /\ result.tag = "Ok"
    /\ result.value.mode = "DIR"

\* The virtual paths that denote the virtual root: runs of slashes, the
\* empty path among them.
IsVirtualRoot(path) == \A i \in 1..Len(path) : path[i] = "/"

RootMetadata(path) ==
    /\ result.tag = "Ok"
    /\ result.value.mode = "DIR"
    /\ result.value.content_length = 0
    /\ result.value.complete = TRUE
    /\ result.value.path = path

\* C6 as stated: stat on the virtual root returns {mode: DIR,
\* content_length: 0, complete: true} and sends nothing; stat on any
\* other path sends exactly one HEAD request.
C6_Original ==
    (pc = "done" /\ call.op = "stat") =>
        IF IsVirtualRoot(call.path)
        THEN RootMetadata(call.path) /\ sent = <<>>
        ELSE Len(sent) = 1 /\ sent[1].method = "HEAD"

\* C6, amended: stat on the virtual root returns {mode: DIR,
\* content_length: 0, complete: true} and sends nothing; stat on any
\* other path sends exactly one HEAD request, for its key, unless signing
\* that request fails: the call then panics and has sent nothing.
C6_StatRoot ==
    (call.op = "stat") =>
        IF IsVirtualRoot(call.path)
        THEN pc = "done" /\ RootMetadata(call.path) /\ sent = <<>>
        ELSE IF result = Panic("sign must success")
        THEN sent = <<>> /\ events = <<"sse", "sign_failed">>
        ELSE /\ Len(sent) = 1
             /\ sent[1].method = "HEAD"
             /\ sent[1].uri.path = Some(call.p)
             /\ pc = "done" => result.tag \in {"Ok", "Err", "Panic"}

\* C6's case: the path "/" under the root /a/.
C6_Witness ==
    /\ pc = "done"
    /\ call.op = "stat"
    /\ call.path = <<"/">>
    /\ backend.root = <<"/", "a", "/">>
    /\ RootMetadata(call.path)
    /\ sent = <<>>

\* C7: with customer-key settings configured, every request sent for
\* read, write, stat and delete carries each configured customer-key
\* header.
C7_CustomerKeyHeaders ==
    (call.op \in {"read", "write", "stat", "delete"}) =>
        \A i \in 1..Len(sent) :
            /\ IsSome(backend.server_side_encryption_customer_algorithm) =>
                   Header("x-amz-server-side-encryption-customer-algorithm",
                          Unwrap(backend.server_side_encryption_customer_algorithm))
                       \in sent[i].headers
            /\ IsSome(backend.server_side_encryption_customer_key) =>
                   Header("x-amz-server-side-encryption-customer-key",
                          Unwrap(backend.server_side_encryption_customer_key))
                       \in sent[i].headers
            /\ IsSome(backend.server_side_encryption_customer_key_md5) =>
                   Header("x-amz-server-side-encryption-customer-key-md5",
                          Unwrap(backend.server_side_encryption_customer_key_md5))
                       \in sent[i].headers

-----------------------------------------------------------------------------
(* Properties of the Backend's fields.                                     *)

\* The root begins with '/', ends with '/' and has no empty segment.
RootWellFormed(root) ==
    /\ StartsWith(root, "/")
    /\ EndsWith(root, "/")
    /\ \A i \in 1..(Len(root) - 1) : ~(root[i] = "/" /\ root[i + 1] = "/")

\* finish on a builder with an empty bucket, whatever its root, the
\* probe's outcome and the signer: a configuration error, no backend, no
\* probe.
EmptyBucketFails ==
    \A r \in UserRoots, outcome \in ProbeOutcomes, signer_ok \in BOOLEAN :
        LET f == finish(set_bucket(set_root(BuilderDefault, r), ""),
                        outcome, signer_ok)
        IN  IsConfigError(f.res) /\ f.probes = <<>>

\* C13: every backend finish returns has a non-empty bucket and a root
\* that begins with '/', ends with '/' and has no empty segment, whatever
\* root the user gave; finish with an empty bucket returns
\* BackendConfigurationInvalid and builds no backend; no read, write,
\* stat, delete or list call changes any field of the backend.
C13_BackendFields ==
    /\ EmptyBucketFails
    /\ [](backend.bucket /= "" /\ RootWellFormed(backend.root))
    /\ [][backend' = backend]_vars

\* C13's case: the backend built with the root "a//b/", after a call.
C13_Witness ==
    /\ backend.root = <<"/", "a", "/", "b", "/">>
    /\ backend.bucket = "test"
    /\ pc = "done"
    /\ call.op = "delete"
    /\ Len(sent) = 1

-----------------------------------------------------------------------------
(* Properties of signing.                                                  *)

\* The positions of the step e among the steps the current call has taken.
EventsAt(e) == {i \in 1..Len(events) : events[i] = e}

\* C14: in get, put, head, delete and list-page, a request handed to the
\* client has been signed earlier in the same call, and the encryption
\* headers, where the call attaches them, are attached before the request
\* is signed; if the signer fails, the call hands no request to the
\* client, returns no success value and does not try to sign again.
C14_SignedBeforeSent ==
    /\ Len(sent) <= 1
    /\ \A i \in 1..Len(sent) : sent[i].signed
    /\ Cardinality(EventsAt("sign") \cup EventsAt("sign_failed")) <= 1
    /\ \A j \in EventsAt("send") : \E i \in EventsAt("sign") : i < j
    /\ \A i \in EventsAt("sse") :
           \A j \in EventsAt("sign") \cup EventsAt("sign_failed") : i < j
    /\ (sent /= <<>>) <=> (EventsAt("send") /= {})
    /\ (sent /= <<>> /\ call.op \in {"read", "write", "stat"}) =>
           /\ events = <<"sse", "sign", "send">>
           /\ insert_sse_headers(backend, {}, call.op = "write")
                  \subseteq sent[1].headers
    /\ (EventsAt("sign_failed") /= {}) =>
           /\ sent = <<>>
           /\ pc = "done"
           /\ result.tag = "Panic"

\* C14's case: a write whose signer failed, after the encryption headers
\* were attached.
C14_Witness ==
    /\ call.op = "write"
    /\ events = <<"sse", "sign_failed">>
    /\ sent = <<>>
    /\ pc = "done"
    /\ result = Panic("sign must success")

-----------------------------------------------------------------------------
(* Properties of the path functions.                                       *)

\* get_rel_path has returned, for the key get_abs_path gave the path
\* call.of.
RoundTripDone == pc = "done" /\ call.op = "get_rel_path"

\* C15 as stated: for every root and virtual path p, get_rel_path of
\* get_abs_path of p succeeds and returns the normalized p with a '/' in
\* front; for the root /a/ and the path /b, "/b".
C15_Original ==
    RoundTripDone =>
        result = Ok(<<"/">> \o normalize_path(call.of))

\* C15, amended: for the root /a/ and the path /b, get_abs_path returns
\* a/b and get_rel_path of a/b returns b; for every root and virtual path
\* p, get_rel_path of get_abs_path of p succeeds (the root is always
\* stripped) and returns the normalized p with no '/' in front, and the
\* empty path when p is a run of slashes.
C15_RoundTrip ==
    RoundTripDone =>
        /\ call.path = get_abs_path(backend.root, call.of)
        /\ result.tag = "Ok"
        /\ result.value = IF IsVirtualRoot(call.of) THEN <<>>
                          ELSE normalize_path(call.of)
        /\ ~StartsWith(result.value, "/")
        /\ (backend.root = <<"/", "a", "/">> /\ call.of = <<"/", "b">>) =>
               /\ call.path = <<"a", "/", "b">>
               /\ result.value = <<"b">>

\* C15's case: the root /a/ and the path /b.
C15_Witness ==
    /\ RoundTripDone
    /\ backend.root = <<"/", "a", "/">>
    /\ call.of = <<"/", "b">>
    /\ call.path = <<"a", "/", "b">>
    /\ result = Ok(<<"b">>)

\* normalize_path has returned, applied to what it returned for call.of.
NormalizedTwice == pc = "done" /\ call.op = "normalize_path" /\ call.n = 2

\* C16: normalize_path is idempotent: normalize_path(normalize_path(p)) =
\* normalize_path(p) for every path p, the empty path, "/", runs of
\* slashes and paths with leading, trailing or repeated slashes among
\* them.
C16_Idempotent ==
    NormalizedTwice =>
        /\ call.path = normalize_path(call.of)
        /\ result = Ok(call.path)

\* C16's case: a path with leading, repeated and trailing slashes.
C16_Witness ==
    /\ NormalizedTwice
    /\ call.of \in {<<"/", "/", "a">>, <<"a", "/", "/">>, <<"/", "/", "/">>}
    /\ result = Ok(call.path)

-----------------------------------------------------------------------------
(* Properties of the list stream.                                          *)

\* The entries of the pages, in page order.
RECURSIVE ConcatEntries(_)
ConcatEntries(pages) ==
    IF pages = <<>> THEN <<>>
    ELSE pages[1].entries \o ConcatEntries(Tail(pages))

\* The stream has ended: it has terminated, its refill has failed, or the
\* signer's failure has made the refill panic.
StreamEnded == stream.state \in {"terminated", "failed", "panicked"}

\* The k-th request the stream has sent is a signed list-page request for
\* the stream's prefix, with no continuation-token parameter when it is
\* the first, and with the token of the page before otherwise.
IsPageRequest(k) ==
    /\ sent[k].method = "GET"
    /\ sent[k].signed
    /\ sent[k].uri.path = None
    /\ Unwrap(sent[k].uri.query).prefix = stream.prefix
    /\ Unwrap(sent[k].uri.query).continuation_token =
           (IF k = 1 THEN None ELSE Some(stream.pages[k - 1].next))

\* What holds of a stream at every moment of its life.
StreamSafe ==
    (stream.state /= "none") =>
        LET n == Len(stream.pages)
        IN  /\ \A k \in 1..Len(sent) : IsPageRequest(k)
            /\ Len(sent) =
                   n + (IF stream.state \in {"sending", "failed"} THEN 1
                        ELSE 0)
            /\ \A k \in 1..(n - 1) : stream.pages[k].next /= ""
            /\ stream.yielded =
                   (IF n = 0 THEN <<>>
                    ELSE ConcatEntries(SubSeq(stream.pages, 1, n - 1))
                         \o SubSeq(stream.entries, 1, stream.cursor))
            /\ (stream.state = "terminated") =>
                   /\ n >= 1
                   /\ stream.pages[n].next = ""
                   /\ stream.yielded = ConcatEntries(stream.pages)
                   /\ Len(sent) = n

-----------------------------------------------------------------------------
(* Properties of the store keys.                                           *)

\* The key has an empty segment within it: two slashes in a row.
HasEmptySegment(key) ==
    \E i \in 1..(Len(key) - 1) : key[i] = "/" /\ key[i + 1] = "/"

\* C18: the key get_abs_path computes for a read, write, stat or delete,
\* and the prefix list computes, never begins with '/' and has no empty
\* segment within it, whatever the root and the virtual path, the paths
\* "", "/" and "//" under a root other than "/" among them.
C18_KeyShape ==
    (call.op \in {"read", "write", "stat", "delete", "list", "list_objects"})
        => /\ ~StartsWith(call.p, "/")
           /\ ~HasEmptySegment(call.p)

\* C19: normalize_path returns the non-empty segments of the path joined
\* by single slashes, with no '/' in front, and with one '/' behind iff
\* the path ended with '/' and the joined segments are not empty; of "/"
\* and of any run of slashes it returns the empty path.
C19_NormalizeShape ==
    (pc = "done" /\ call.op = "normalize_path") =>
        LET joined ==
                JoinSlash(SelectSeq(SplitSlash(call.path),
                                    LAMBDA v : v /= <<>>))
        IN  /\ result.tag = "Ok"
            /\ result.value =
                   (IF EndsWith(call.path, "/") /\ joined /= <<>>
                    THEN Append(joined, "/") ELSE joined)
            /\ ~StartsWith(result.value, "/")
            /\ IsVirtualRoot(call.path) => result.value = <<>>

-----------------------------------------------------------------------------
(* Properties of finish's effect on the Builder.                           *)

SseFields ==
    {"server_side_encryption", "server_side_encryption_aws_kms_key_id",
     "server_side_encryption_customer_algorithm",
     "server_side_encryption_customer_key",
     "server_side_encryption_customer_key_md5"}

SseHeaderNames ==
    {X_AMZ_SERVER_SIDE_ENCRYPTION, X_AMZ_SERVER_SIDE_ENCRYPTION_AWS_KMS_KEY_ID,
     X_AMZ_SERVER_SIDE_ENCRYPTION_CUSTOMER_ALGORITHM,
     X_AMZ_SERVER_SIDE_ENCRYPTION_CUSTOMER_KEY,
     X_AMZ_SERVER_SIDE_ENCRYPTION_CUSTOMER_KEY_MD5}

\* The requests the backend b sends for a get, a put, a head, a delete and
\* a list-page of the key "a".
RequestsOf(b) ==
    {get_object(b, <<"a">>, None, None, TRUE).sent[1],
     put_object(b, <<"a">>, 5, TRUE).sent[1],
     head_object(b, <<"a">>, TRUE).sent[1],
     delete_object(b, <<"a">>, TRUE).sent[1],
     list_objects(b, <<"a">>, "", TRUE).sent[1]}

\* Another finish of the same builder has succeeded after one that
\* succeeded.
FinishedAgain ==
    built.fn = "finish" /\ built.again /\ built.res.tag = "Ok"

\* C20: a finish that succeeds leaves the builder's five encryption
\* settings unset, having given them to the backend, and its root,
\* bucket, credential, endpoint and region as they were, so that a
\* backend built by another finish of the same builder attaches no
\* encryption header to any request; a finish that fails leaves every
\* field of the builder as it was.
C20_FinishFrame ==
    (built.fn = "finish") =>
        /\ (built.res.tag = "Ok") =>
               /\ \A f \in SseFields :
                      /\ builder[f] = None
                      /\ built.res.value[f] = built.of[f]
               /\ \A f \in (DOMAIN builder) \ SseFields :
                      builder[f] = built.of[f]
        /\ (built.res.tag /= "Ok") => builder = built.of
        /\ FinishedAgain =>
               /\ \A f \in SseFields : built.of[f] = None
               /\ \A req \in RequestsOf(built.res.value) :
                      \A h \in req.headers : h.name \notin SseHeaderNames

\* C20's case: a finish that succeeded on a builder with encryption
\* settings.
C20_Witness ==
    /\ built.fn = "finish"
    /\ built.res.tag = "Ok"
    /\ built.of.server_side_encryption = Some("AES256")
    /\ built.res.value.server_side_encryption = Some("AES256")
    /\ builder.server_side_encryption = None
    /\ builder.bucket = "test"

=============================================================================
